---- MODULE Spec2Model ----
(***************************************************************************)
(* Model of tensorflow_hub/resolver.py: the lock-file protocol of          *)
(* atomic_download and its staleness monitor _wait_for_lock_to_disappear.  *)
(* Every storage operation (Exists, ListDirectory, Rename, Remove, ...) is *)
(* one atomic step of the task that issues it; tasks are independent       *)
(* processes that interleave at these steps.                               *)
(***************************************************************************)
EXTENDS Integers, FiniteSets, Sequences, TLC

\* Number of concurrent atomic_download calls on the same module_dir.
NumTasks == 2
\* Number of bytes download_fn writes into tmp_dir before it returns.
ArtifactSize == 2
\* Number of storage errors the backend may inject into lock creation.
MaxErrors == 1
\* The lock_file_timeout_sec argument the calls are made with.
LockFileTimeoutSec == 5
\* Lock records: the longest host name, the largest pid and the longest
\* task uid that are written and read back.
MaxHostLen == 3
MaxPid == 11
MaxUidLen == 2
\* DownloadManager: the bytes a download reports in total and the time it
\* takes.
MaxBytes == 4
MaxClock == 32
\* Line 168: a progress message "every 15 secs".
ProgressIntervalSec == 15
\* time.sleep(5) in _wait_for_lock_to_disappear.
PollSec == 5

\* The calls that race from the start.
Tasks == 1 .. NumTasks
\* One more call: made only once module_dir is populated (SpecLateCaller),
\* or dying right after its lock write (SpecOrphan).
LateCaller == NumTasks + 1
Callers == Tasks \cup {LateCaller}

\* A path that does not exist, as a directory and as a file.
NoDir == [owner |-> 0, size |-> -1]
NoFile == <<>>
\* An existing directory without entries that no task's download produced.
EmptyDir == [owner |-> 0, size |-> 0]
\* lock_file_content = None
None == <<"None">>

\* The except-tuple of atomic_download: errors that abort the call.
PermanentErrors ==
    {"NotFoundError", "PermissionDeniedError", "UnauthenticatedError",
     "ResourceExhaustedError", "InternalError", "InvalidArgumentError",
     "UnimplementedError"}
\* Other tf.errors.OpError subclasses (line 404).
OtherErrors == {"AlreadyExistsError", "UnavailableError"}

\* Mutant: InternalError missing from the except-tuple.
IsPermanentWithoutInternal(e) == e \in PermanentErrors \ {"InternalError"}

\* Lines 395-402: the except clause that re-raises.
IsPermanent(e) == e \in PermanentErrors

\* _lock_file_contents: "<host>.<pid>.<task_uid>"; every task is a process
\* of its own, the uid is the task's.
lock_file_contents(t) == <<"host", "pid", t>>

\* _task_uid_from_lock_file: lock.split(".")[-1]
task_uid_from_lock(lock) == lock[Len(lock)]

VARIABLES
    module_dir,   \* the directory at module_dir
    lock_file,    \* the content of module_dir + ".lock", NoFile when absent
    tmp_dir,      \* tmp_dir[t]: the directory module_dir.<uid of t>.tmp
    descriptor,   \* the task that last wrote module_dir.descriptor.txt, or 0
    pc,           \* pc[t]: the storage operation task t issues next
    result,       \* result[t]: "none", "ok" (module_dir returned) or the error raised
    did,          \* did[t]: what the call of t has done so far (history)
    locked_tmp_dir_size,   \* the monitor's last sample of the holder's size
    lock_file_content,     \* the monitor's last sample of the lock content
    elapsed,      \* time.time() - locked_tmp_dir_size_check_time, saturated
    cur_uid,      \* the uid _locked_tmp_dir_size read from the lock
    cur_locked_tmp_dir_size,
    errs,         \* storage errors injected so far
    lock_record,  \* a lock record being written and read back
    manager,      \* the fields of a DownloadManager object
    clock,        \* time.time(), counted from the manager's construction
    download_progress_env,  \* os.getenv(_TFHUB_DOWNLOAD_PROGRESS, "")
    progress_calls, \* the _log_progress calls made so far (history)
    uncompress_pc,  \* where download_and_uncompress is: "none", "extracting",
                    \* "returned" or "raised"
    summary_msgs,   \* the "Downloaded ..., Total size: ..." messages printed
    raised          \* the exception download_and_uncompress raised, or ""

vars == <<module_dir, lock_file, tmp_dir, descriptor, pc, result, did,
          locked_tmp_dir_size, lock_file_content, elapsed, cur_uid,
          cur_locked_tmp_dir_size, errs, lock_record, manager, clock,
          download_progress_env, progress_calls, uncompress_pc, summary_msgs,
          raised>>

\* The state of a download_and_uncompress call.
uncompress == <<uncompress_pc, summary_msgs, raised>>

\* The state outside atomic_download, which no step of it touches.
aside == <<lock_record, manager, clock, download_progress_env, progress_calls,
           uncompress>>

storage == <<module_dir, lock_file, tmp_dir, descriptor>>
monitorLocals == <<locked_tmp_dir_size, lock_file_content, elapsed, cur_uid,
                   cur_locked_tmp_dir_size>>

\* Strings are sequences of one-character strings.
Strings(chars, n) == UNION {[1 .. k -> chars] : k \in 1 .. n}

\* "%d" % n for n >= 0.
Digits == <<"0", "1", "2", "3", "4", "5", "6", "7", "8", "9">>

RECURSIVE FormatDecimal(_)
FormatDecimal(n) ==
    IF n < 10 THEN <<Digits[n + 1]>>
    ELSE FormatDecimal(n \div 10) \o <<Digits[(n % 10) + 1]>>

\* str.split(sep) for a one-character separator: the fields between the
\* occurrences of sep, [s] when there is none.
RECURSIVE Split(_, _)
Split(s, sep) ==
    IF \A i \in 1 .. Len(s) : s[i] # sep
    THEN <<s>>
    ELSE LET i == CHOOSE j \in 1 .. Len(s) :
                      s[j] = sep /\ \A k \in 1 .. j - 1 : s[k] # sep
         IN  <<SubSeq(s, 1, i - 1)>> \o Split(SubSeq(s, i + 1, Len(s)), sep)

\* Line 233: "%s.%d.%s" % (socket.gethostname(), os.getpid(), task_uid).
LockFileContentsString(hostname, pid, task_uid) ==
    hostname \o <<".">> \o FormatDecimal(pid) \o <<".">> \o task_uid

\* lock.split(".")[2]: the third field, whatever the number of fields.
TaskUidThirdField(lock) == Split(lock, ".")[3]

\* Line 259: lock.split(".")[-1].
TaskUidFromLockString(lock) ==
    LET fields == Split(lock, ".") IN fields[Len(fields)]

\* No lock record is being handled.
NoRecord == [hostname |-> <<>>, pid |-> 0, task_uid |-> <<>>,
             lock |-> NoFile, read_uid |-> None]

\* No DownloadManager has been constructed.
NoManager == [last_progress_msg_print_time |-> 0, total_bytes_downloaded |-> 0]

\* tf_utils.atomic_write_string_to_file(file, content, overwrite=False): a
\* conditional create that succeeds only when the file does not exist.
WritableWithoutOverwrite(file) == file = NoFile

\* tf.compat.v1.gfile.Exists and a non-empty ListDirectory of a directory.
Exists(d) == d # NoDir
Populated(d) == d # NoDir /\ d.size > 0

MonitorPcs == {"w_exists", "w_read", "w_uid", "w_dirsize", "w_content",
               "w_remove", "w_sleep", "w_sleep_break",
               "w_sleep_notfound", "w_exists_notfound"}

\* No call of atomic_download has been made.
InitCalls ==
    /\ module_dir \in {NoDir, EmptyDir}
    /\ lock_file = NoFile
    /\ tmp_dir = [t \in Callers |-> NoDir]
    /\ descriptor = 0
    /\ pc = [t \in Callers |-> "idle"]
    /\ result = [t \in Callers |-> "none"]
    /\ did = [t \in Callers |-> {}]
    /\ locked_tmp_dir_size = [t \in Callers |-> 0]
    /\ lock_file_content = [t \in Callers |-> None]
    /\ elapsed = [t \in Callers |-> 0]
    /\ cur_uid = [t \in Callers |-> 0]
    /\ cur_locked_tmp_dir_size = [t \in Callers |-> 0]
    /\ errs = 0

\* No download is being reported.
InitNoManager ==
    /\ manager = NoManager
    /\ clock = 0
    /\ download_progress_env = ""
    /\ progress_calls = <<>>
    /\ uncompress_pc = "none"
    /\ summary_msgs = <<>>
    /\ raised = ""

Init ==
    /\ InitCalls
    /\ lock_record = NoRecord
    /\ InitNoManager

Goto(t, p) == pc' = [pc EXCEPT ![t] = p]
Did(t, what) == did' = [did EXCEPT ![t] = @ \cup {what}]

\* An exception leaves the try block of atomic_download: the finally clause runs.
Raise(t, e) ==
    /\ result' = [result EXCEPT ![t] = e]
    /\ Goto(t, "cleanup_tmp")

\* "return module_dir" inside or after the try block: the finally clause runs.
ReturnModuleDir(t) ==
    /\ result' = [result EXCEPT ![t] = "ok"]
    /\ Goto(t, "cleanup_tmp")

(***************************************************************************)
(* atomic_download, lines 362-375: the fast path, outside the try block.   *)
(***************************************************************************)

\* Lines 369-392 left out for an absent module_dir: the task goes to line
\* 415 without the lock.
CheckExistsBeforeLockThenDownload(t) ==
    /\ pc[t] = "idle"
    /\ IF Exists(module_dir)
       THEN /\ Goto(t, "fast_list")
            /\ did' = [did EXCEPT ![t] =
                         IF Populated(module_dir) THEN {"called_populated"} ELSE {}]
       ELSE /\ Goto(t, "mkdirs")
            /\ UNCHANGED did
    /\ UNCHANGED <<storage, result, monitorLocals, errs, aside>>

\* check_module_exists(), first half: Exists(module_dir) (line 369).
CheckExistsBeforeLock(t) ==
    /\ pc[t] = "idle"
    /\ IF Exists(module_dir)
       THEN /\ Goto(t, "fast_list")
            /\ did' = [did EXCEPT ![t] =
                         IF Populated(module_dir) THEN {"called_populated"} ELSE {}]
       ELSE /\ Goto(t, "write_lock")
            /\ UNCHANGED did
    /\ UNCHANGED <<storage, result, monitorLocals, errs, aside>>

\* check_module_exists(), second half: ListDirectory(module_dir) (line 370);
\* a non-empty listing returns module_dir (line 375). ListDirectory of a
\* directory that vanished raises NotFoundError, which nothing catches here.
CheckListBeforeLock(t) ==
    /\ pc[t] = "fast_list"
    /\ IF ~Exists(module_dir)
       THEN /\ Goto(t, "done")
            /\ result' = [result EXCEPT ![t] = "NotFoundError"]
       ELSE IF Populated(module_dir)
       THEN /\ Goto(t, "done")
            /\ result' = [result EXCEPT ![t] = "ok"]
       ELSE /\ Goto(t, "write_lock")
            /\ UNCHANGED result
    /\ UNCHANGED <<storage, did, monitorLocals, errs, aside>>

(***************************************************************************)
(* atomic_download, lines 380-413: the lock acquisition loop.              *)
(***************************************************************************)

\* Line 408: _wait_for_lock_to_disappear is called; lines 303-305 set its locals.
EnterMonitor(t) ==
    /\ Goto(t, "w_exists")
    /\ locked_tmp_dir_size' = [locked_tmp_dir_size EXCEPT ![t] = 0]
    /\ lock_file_content' = [lock_file_content EXCEPT ![t] = None]
    /\ elapsed' = [elapsed EXCEPT ![t] = 0]
    /\ UNCHANGED <<cur_uid, cur_locked_tmp_dir_size>>

\* The except clauses of lines 395-405 for error e of the lock creation.
LockCreationFailed(t, e) ==
    IF IsPermanent(e)
    THEN /\ Raise(t, e)
         /\ UNCHANGED monitorLocals
    ELSE /\ EnterMonitor(t)
         /\ UNCHANGED result

\* Line 383 with overwrite=True: the write replaces an existing lock file.
CreateLockOverwrites(t) ==
    /\ pc[t] = "write_lock"
    /\ lock_file' = lock_file_contents(t)
    /\ Did(t, "lock")
    /\ Goto(t, "chk_exists")
    /\ UNCHANGED <<module_dir, tmp_dir, descriptor, result, monitorLocals, errs, aside>>

\* Line 383: atomic_write_string_to_file(lock_file, lock_contents, overwrite=False)
\* creates the lock file only when none exists, and raises AlreadyExistsError
\* otherwise.
CreateLock(t) ==
    /\ pc[t] = "write_lock"
    /\ IF WritableWithoutOverwrite(lock_file)
       THEN /\ lock_file' = lock_file_contents(t)
            /\ Did(t, "lock")
            /\ Goto(t, "chk_exists")
            /\ UNCHANGED <<result, monitorLocals>>
       ELSE /\ LockCreationFailed(t, "AlreadyExistsError")
            /\ UNCHANGED <<lock_file, did>>
    /\ UNCHANGED <<module_dir, tmp_dir, descriptor, errs, aside>>

\* Line 383 on a backend that fails the write with error e. did[t] records
\* a failure with one of the error classes of lines 395-401.
CreateLockError(t) ==
    /\ pc[t] = "write_lock"
    /\ errs < MaxErrors
    /\ errs' = errs + 1
    /\ \E e \in PermanentErrors \cup {"UnavailableError"} :
          /\ LockCreationFailed(t, e)
          /\ did' = [did EXCEPT ![t] =
                       IF e \in PermanentErrors THEN @ \cup {e} ELSE @]
    /\ UNCHANGED <<storage, aside>>

\* Line 387, check_module_exists(): Exists(module_dir).
CheckExistsAfterLock(t) ==
    /\ pc[t] = "chk_exists"
    /\ Goto(t, IF Exists(module_dir) THEN "chk_list" ELSE "del_exists")
    /\ UNCHANGED <<storage, result, did, monitorLocals, errs, aside>>

\* Lines 387-389 without the return: a populated module_dir is treated like
\* an empty one.
CheckListAfterLockGoesOn(t) ==
    /\ pc[t] = "chk_list"
    /\ IF ~Exists(module_dir)
       THEN Raise(t, "NotFoundError")
       ELSE /\ Goto(t, "del_exists")
            /\ UNCHANGED result
    /\ UNCHANGED <<storage, did, monitorLocals, errs, aside>>

\* Line 387, check_module_exists(): ListDirectory(module_dir); a non-empty
\* listing returns module_dir (line 389). NotFoundError is in the except-tuple.
CheckListAfterLock(t) ==
    /\ pc[t] = "chk_list"
    /\ IF ~Exists(module_dir)
       THEN Raise(t, "NotFoundError")
       ELSE IF Populated(module_dir)
       THEN ReturnModuleDir(t)
       ELSE /\ Goto(t, "del_exists")
            /\ UNCHANGED result
    /\ UNCHANGED <<storage, did, monitorLocals, errs, aside>>

\* Lines 390-391 left out: the task goes on to line 415 whatever
\* module_dir is.
ExistsBeforeDeleteSkipsDelete(t) ==
    /\ pc[t] = "del_exists"
    /\ Goto(t, "mkdirs")
    /\ UNCHANGED <<storage, result, did, monitorLocals, errs, aside>>

\* Line 390: if Exists(module_dir).
ExistsBeforeDelete(t) ==
    /\ pc[t] = "del_exists"
    /\ Goto(t, IF Exists(module_dir) THEN "del_rec" ELSE "mkdirs")
    /\ UNCHANGED <<storage, result, did, monitorLocals, errs, aside>>

\* Line 391: DeleteRecursively(module_dir), then break (line 392).
DeleteModuleDir(t) ==
    /\ pc[t] = "del_rec"
    /\ IF Exists(module_dir)
       THEN /\ module_dir' = NoDir
            /\ Goto(t, "mkdirs")
            /\ UNCHANGED result
       ELSE /\ Raise(t, "NotFoundError")
            /\ UNCHANGED module_dir
    /\ UNCHANGED <<lock_file, tmp_dir, descriptor, did, monitorLocals, errs, aside>>

(***************************************************************************)
(* atomic_download, lines 415-433: download and publication.               *)
(***************************************************************************)

\* Line 417: MakeDirs(tmp_dir); line 418 then calls download_fn.
MakeTmpDir(t) ==
    /\ pc[t] = "mkdirs"
    /\ tmp_dir' = [tmp_dir EXCEPT ![t] = [owner |-> t, size |-> 0]]
    /\ Did(t, "tmp")
    /\ Goto(t, "download")
    /\ UNCHANGED <<module_dir, lock_file, descriptor, result, monitorLocals, errs, aside>>

\* Line 418, inside download_fn: one more byte is written into tmp_dir.
DownloadFnWrites(t) ==
    /\ pc[t] = "download"
    /\ tmp_dir[t].size < ArtifactSize
    /\ tmp_dir' = [tmp_dir EXCEPT ![t].size = @ + 1]
    /\ Did(t, "download_fn")
    /\ UNCHANGED <<module_dir, lock_file, descriptor, pc, result, monitorLocals, errs, aside>>

\* Line 418: download_fn returns, having left the complete artifact in tmp_dir.
DownloadFnReturns(t) ==
    /\ pc[t] = "download"
    /\ tmp_dir[t].size = ArtifactSize
    /\ did' = [did EXCEPT ![t] = @ \cup {"download_fn", "download_ok"}]
    /\ Goto(t, "descriptor")
    /\ UNCHANGED <<storage, result, monitorLocals, errs, aside>>

\* Mutant: the error of download_fn is swallowed and the call goes on.
DownloadFnRaisesSwallowed(t) ==
    /\ pc[t] = "download"
    /\ Did(t, "download_fn")
    /\ Goto(t, "descriptor")
    /\ UNCHANGED <<storage, result, monitorLocals, errs, aside>>

\* Line 418: download_fn raises, leaving whatever it wrote so far.
DownloadFnRaises(t) ==
    /\ pc[t] = "download"
    /\ Did(t, "download_fn")
    /\ Raise(t, "DownloadError")
    /\ UNCHANGED <<storage, monitorLocals, errs, aside>>

\* Line 428: _write_module_descriptor_file(handle, module_dir), overwrite=True.
WriteDescriptor(t) ==
    /\ pc[t] = "descriptor"
    /\ descriptor' = t
    /\ Did(t, "descriptor")
    /\ Goto(t, "rename")
    /\ UNCHANGED <<module_dir, lock_file, tmp_dir, result, monitorLocals, errs, aside>>

\* Mutant: the AlreadyExistsError of Rename is not caught.
RenameTmpDirRaises(t) ==
    /\ pc[t] = "rename"
    /\ IF ~Exists(module_dir)
       THEN /\ module_dir' = tmp_dir[t]
            /\ tmp_dir' = [tmp_dir EXCEPT ![t] = NoDir]
            /\ Did(t, "rename_ok")
            /\ ReturnModuleDir(t)
       ELSE /\ Did(t, "rename_lost")
            /\ Raise(t, "AlreadyExistsError")
            /\ UNCHANGED <<module_dir, tmp_dir>>
    /\ UNCHANGED <<lock_file, descriptor, monitorLocals, errs, aside>>

\* Lines 429-433: Rename(tmp_dir, module_dir) moves the directory when the
\* destination does not exist; AlreadyExistsError is logged and swallowed.
\* Either way line 452 returns module_dir, through the finally clause.
RenameTmpDir(t) ==
    /\ pc[t] = "rename"
    /\ IF ~Exists(module_dir)
       THEN /\ module_dir' = tmp_dir[t]
            /\ tmp_dir' = [tmp_dir EXCEPT ![t] = NoDir]
            /\ Did(t, "rename_ok")
       ELSE /\ Did(t, "rename_lost")
            /\ UNCHANGED <<module_dir, tmp_dir>>
    /\ ReturnModuleDir(t)
    /\ UNCHANGED <<lock_file, descriptor, monitorLocals, errs, aside>>

(***************************************************************************)
(* atomic_download, lines 435-452: the finally clause.                     *)
(***************************************************************************)

\* Mutant: the temp dir named by the lock file is deleted, not the task's own.
CleanupTmpDirOfLockHolder(t) ==
    /\ pc[t] = "cleanup_tmp"
    /\ tmp_dir' = [tmp_dir EXCEPT
          ![IF lock_file = NoFile THEN t ELSE task_uid_from_lock(lock_file)] = NoDir]
    /\ Goto(t, "cleanup_read")
    /\ UNCHANGED <<module_dir, lock_file, descriptor, result, did, monitorLocals, errs, aside>>

\* Lines 436-440: DeleteRecursively(tmp_dir), NotFoundError ignored.
CleanupTmpDir(t) ==
    /\ pc[t] = "cleanup_tmp"
    /\ tmp_dir' = [tmp_dir EXCEPT ![t] = NoDir]
    /\ Goto(t, "cleanup_read")
    /\ UNCHANGED <<module_dir, lock_file, descriptor, result, did, monitorLocals, errs, aside>>

\* Mutant: the content read is compared with the bare task uid, which never
\* equals a lock content, so the lock is never removed.
CleanupReadLockComparesUid(t) ==
    /\ pc[t] = "cleanup_read"
    /\ Goto(t, IF lock_file = <<t>> THEN "cleanup_remove" ELSE "done")
    /\ UNCHANGED <<storage, result, did, monitorLocals, errs, aside>>

\* Lines 441-445: contents = read_file_to_string(lock_file), "" when the file
\* is not found; if contents == lock_contents the Remove follows.
CleanupReadLock(t) ==
    /\ pc[t] = "cleanup_read"
    /\ Goto(t, IF lock_file = lock_file_contents(t) THEN "cleanup_remove" ELSE "done")
    /\ UNCHANGED <<storage, result, did, monitorLocals, errs, aside>>

\* Lines 447-450: Remove(lock_file), NotFoundError ignored.
CleanupRemoveLock(t) ==
    /\ pc[t] = "cleanup_remove"
    /\ lock_file' = NoFile
    /\ Goto(t, "done")
    /\ UNCHANGED <<module_dir, tmp_dir, descriptor, result, did, monitorLocals, errs, aside>>

(***************************************************************************)
(* _wait_for_lock_to_disappear, lines 287-336.                             *)
(***************************************************************************)

\* The clock moves on by PollSec: every task inside the monitor sees
\* time.time() - locked_tmp_dir_size_check_time grow. A difference already
\* above the timeout is kept as it is, since the code only compares with it.
Later(by) ==
    [t \in Callers |->
        IF pc[t] \in MonitorPcs /\ elapsed[t] <= LockFileTimeoutSec
        THEN elapsed[t] + by ELSE elapsed[t]]

\* The monitor returns to line 408: the loop of atomic_download iterates.
LeaveMonitor(t, time) ==
    /\ Goto(t, "write_lock")
    /\ locked_tmp_dir_size' = [locked_tmp_dir_size EXCEPT ![t] = 0]
    /\ lock_file_content' = [lock_file_content EXCEPT ![t] = None]
    /\ elapsed' = [time EXCEPT ![t] = 0]
    /\ cur_uid' = [cur_uid EXCEPT ![t] = 0]
    /\ cur_locked_tmp_dir_size' = [cur_locked_tmp_dir_size EXCEPT ![t] = 0]

\* Line 306: while Exists(lock_file). At "w_exists_notfound" the iteration
\* before ended with a read of the lock file that raised NotFoundError.
MonitorExists(t) ==
    /\ pc[t] \in {"w_exists", "w_exists_notfound"}
    /\ IF lock_file = NoFile
       THEN LeaveMonitor(t, elapsed)
       ELSE /\ Goto(t, "w_read")
            /\ UNCHANGED monitorLocals
    /\ UNCHANGED <<storage, result, did, errs, aside>>

\* Lines 311-313 without the time test: every poll takes a sample.
MonitorReadForLogSamplesAlways(t) ==
    /\ pc[t] = "w_read"
    /\ Goto(t, IF lock_file = NoFile THEN "w_sleep_notfound" ELSE "w_uid")
    /\ UNCHANGED <<storage, result, did, monitorLocals, errs, aside>>

\* Line 311: read_file_to_string(lock_file) for the log message, NotFoundError
\* caught at line 330; then the time test of lines 312-313.
MonitorReadForLog(t) ==
    /\ pc[t] = "w_read"
    /\ Goto(t, IF lock_file = NoFile THEN "w_sleep_notfound"
               ELSE IF elapsed[t] > LockFileTimeoutSec THEN "w_uid"
               ELSE "w_sleep")
    /\ UNCHANGED <<storage, result, did, monitorLocals, errs, aside>>

\* Lines 316, 279: _task_uid_from_lock_file reads the lock file.
MonitorReadUid(t) ==
    /\ pc[t] = "w_uid"
    /\ IF lock_file = NoFile
       THEN /\ Goto(t, "w_sleep_notfound")
            /\ UNCHANGED cur_uid
       ELSE /\ Goto(t, "w_dirsize")
            /\ cur_uid' = [cur_uid EXCEPT ![t] = task_uid_from_lock(lock_file)]
    /\ UNCHANGED <<storage, result, did, locked_tmp_dir_size,
                   lock_file_content, elapsed, cur_locked_tmp_dir_size, errs, aside>>

\* Lines 280-284: _dir_size of the holder's temp dir, 0 on NotFoundError.
locked_tmp_dir_size_of(uid) ==
    IF Exists(tmp_dir[uid]) THEN tmp_dir[uid].size ELSE 0

\* Lines 280-284 without the except clause: the NotFoundError of the
\* listing reaches line 330 and the poll ends without a sample.
MonitorDirSizeNotFoundEndsPoll(t) ==
    /\ pc[t] = "w_dirsize"
    /\ IF Exists(tmp_dir[cur_uid[t]])
       THEN /\ cur_locked_tmp_dir_size' =
                  [cur_locked_tmp_dir_size EXCEPT ![t] = tmp_dir[cur_uid[t]].size]
            /\ Goto(t, "w_content")
       ELSE /\ UNCHANGED cur_locked_tmp_dir_size
            /\ Goto(t, "w_sleep_notfound")
    /\ cur_uid' = [cur_uid EXCEPT ![t] = 0]
    /\ UNCHANGED <<storage, result, did, locked_tmp_dir_size,
                   lock_file_content, elapsed, errs, aside>>

MonitorDirSize(t) ==
    /\ pc[t] = "w_dirsize"
    /\ cur_locked_tmp_dir_size' =
          [cur_locked_tmp_dir_size EXCEPT ![t] = locked_tmp_dir_size_of(cur_uid[t])]
    /\ cur_uid' = [cur_uid EXCEPT ![t] = 0]
    /\ Goto(t, "w_content")
    /\ UNCHANGED <<storage, result, did, locked_tmp_dir_size,
                   lock_file_content, elapsed, errs, aside>>

\* The comparison made with the values of lines 303 and 305 instead of the
\* last samples.
AbandonedAgainstInitialSample(t, cur_size, cur_content) ==
    /\ cur_size = 0
    /\ cur_content = None

\* Lines 318-319: the two samples agree.
Abandoned(t, cur_size, cur_content) ==
    /\ cur_size = locked_tmp_dir_size[t]
    /\ cur_content = lock_file_content[t]

\* Lines 317-329: read the lock content and compare both samples with the
\* last ones; equal leads to the Remove, different records the new samples
\* and restarts the timeout window.
MonitorCompare(t) ==
    /\ pc[t] = "w_content"
    /\ IF lock_file = NoFile
       THEN /\ Goto(t, "w_sleep_notfound")
            /\ UNCHANGED <<locked_tmp_dir_size, lock_file_content, elapsed>>
       ELSE IF Abandoned(t, cur_locked_tmp_dir_size[t], lock_file)
       THEN /\ Goto(t, "w_remove")
            /\ UNCHANGED <<locked_tmp_dir_size, lock_file_content, elapsed>>
       ELSE /\ Goto(t, "w_sleep")
            /\ locked_tmp_dir_size' =
                  [locked_tmp_dir_size EXCEPT ![t] = cur_locked_tmp_dir_size[t]]
            /\ lock_file_content' = [lock_file_content EXCEPT ![t] = lock_file]
            /\ elapsed' = [elapsed EXCEPT ![t] = 0]
    /\ cur_locked_tmp_dir_size' = [cur_locked_tmp_dir_size EXCEPT ![t] = 0]
    /\ UNCHANGED <<storage, result, did, cur_uid, errs, aside>>

\* Lines 325-326 with the NotFoundError of the Remove followed by the break.
MonitorRemoveLockAlwaysBreaks(t) ==
    /\ pc[t] = "w_remove"
    /\ lock_file' = NoFile
    /\ Goto(t, "w_sleep_break")
    /\ UNCHANGED <<module_dir, tmp_dir, descriptor, result, did, monitorLocals,
                   errs, aside>>

\* Lines 325-326: Remove(lock_file) and break; NotFoundError (the file is
\* gone) is caught at line 330 and the loop goes on.
MonitorRemoveLock(t) ==
    /\ pc[t] = "w_remove"
    /\ IF lock_file = NoFile
       THEN /\ Goto(t, "w_sleep")
            /\ UNCHANGED lock_file
       ELSE /\ lock_file' = NoFile
            /\ Goto(t, "w_sleep_break")
    /\ UNCHANGED <<module_dir, tmp_dir, descriptor, result, did, monitorLocals, errs, aside>>

\* Line 336 with a NotFoundError of a read treated like the break: the
\* monitor returns after the sleep.
MonitorSleepReturnsAfterNotFound(t) ==
    /\ pc[t] \in {"w_sleep", "w_sleep_break", "w_sleep_notfound"}
    /\ IF pc[t] # "w_sleep"
       THEN LeaveMonitor(t, Later(PollSec))
       ELSE /\ Goto(t, "w_exists")
            /\ elapsed' = Later(PollSec)
            /\ UNCHANGED <<locked_tmp_dir_size, lock_file_content, cur_uid,
                           cur_locked_tmp_dir_size>>
    /\ UNCHANGED <<storage, result, did, errs, aside>>

\* Line 336: time.sleep(5) in the finally clause, then the next iteration,
\* or the return after the break.
MonitorSleep(t) ==
    /\ pc[t] \in {"w_sleep", "w_sleep_break", "w_sleep_notfound"}
    /\ IF pc[t] = "w_sleep_break"
       THEN LeaveMonitor(t, Later(PollSec))
       ELSE /\ Goto(t, IF pc[t] = "w_sleep" THEN "w_exists"
                       ELSE "w_exists_notfound")
            /\ elapsed' = Later(PollSec)
            /\ UNCHANGED <<locked_tmp_dir_size, lock_file_content, cur_uid,
                           cur_locked_tmp_dir_size>>
    /\ UNCHANGED <<storage, result, did, errs, aside>>

\* Time passes while no task of the model takes a step.
TimePasses ==
    /\ \E t \in Tasks : pc[t] \in MonitorPcs /\ elapsed[t] <= LockFileTimeoutSec
    /\ elapsed' = Later(PollSec)
    /\ UNCHANGED <<storage, pc, result, did, locked_tmp_dir_size,
                   lock_file_content, cur_uid, cur_locked_tmp_dir_size, errs, aside>>

(***************************************************************************)
(* The system: every task runs one atomic_download call.                   *)
(***************************************************************************)

\* One step of task t in which no storage error is injected, download_fn
\* does not raise and no lock is removed by the monitor.
OrdinaryStep(t) ==
    \/ CheckExistsBeforeLock(t)
    \/ CheckListBeforeLock(t)
    \/ CreateLock(t)
    \/ CheckExistsAfterLock(t)
    \/ CheckListAfterLock(t)
    \/ ExistsBeforeDelete(t)
    \/ DeleteModuleDir(t)
    \/ MakeTmpDir(t)
    \/ DownloadFnWrites(t)
    \/ DownloadFnReturns(t)
    \/ WriteDescriptor(t)
    \/ RenameTmpDir(t)
    \/ CleanupTmpDir(t)
    \/ CleanupReadLock(t)
    \/ CleanupRemoveLock(t)
    \/ MonitorExists(t)
    \/ MonitorReadForLog(t)
    \/ MonitorReadUid(t)
    \/ MonitorDirSize(t)
    \/ MonitorCompare(t)
    \/ MonitorSleep(t)

\* One step of task t.
TaskStep(t) ==
    \/ OrdinaryStep(t)
    \/ CreateLockError(t)
    \/ DownloadFnRaises(t)
    \/ MonitorRemoveLock(t)

Next ==
    \/ \E t \in Tasks : TaskStep(t)
    \/ TimePasses

Spec == Init /\ [][Next]_vars

\* A further caller that calls atomic_download when module_dir is populated:
\* it runs lines 362-375 and, module_dir never being an empty directory
\* again, never gets past them.
LateCall ==
    /\ Populated(module_dir)
    /\ CheckExistsBeforeLock(LateCaller)

LateList == CheckListBeforeLock(LateCaller)

NextLateCaller ==
    \/ Next
    \/ LateCall
    \/ LateList

SpecLateCaller == Init /\ [][NextLateCaller]_vars

(***************************************************************************)
(* A holder that crashes: its process dies between the lock write of line  *)
(* 384 and the Remove of line 448, so nothing of lines 435-450 runs.       *)
(***************************************************************************)

\* The positions of a task that has written its lock (line 384) and has not
\* finished the finally clause (lines 435-450).
HolderPcs == {"chk_exists", "chk_list", "del_exists", "del_rec", "mkdirs",
              "download", "descriptor", "rename", "cleanup_tmp",
              "cleanup_read", "cleanup_remove"}

Crashed(t) == pc[t] = "crashed"

\* Task t dies while its lock file is in place: the lock and, if it exists,
\* the temp dir stay as they are. One task crashes.
Crash(t) ==
    /\ pc[t] \in HolderPcs
    /\ lock_file = lock_file_contents(t)
    /\ \A u \in Tasks : ~Crashed(u)
    /\ Goto(t, "crashed")
    /\ UNCHANGED <<storage, result, did, monitorLocals, errs, aside>>

\* The steps of a live task when download_fn succeeds and no storage error
\* is injected.
LiveStep(t) ==
    \/ OrdinaryStep(t)
    \/ MonitorRemoveLock(t)

NextCrash ==
    \/ \E t \in Tasks : LiveStep(t)
    \/ \E t \in Tasks : Crash(t)

\* Every live task keeps running (its process is scheduled, its sleeps end,
\* download_fn returns) and time.time() advances with the sleeps.
SpecCrash ==
    /\ Init
    /\ [][NextCrash]_vars
    /\ \A t \in Tasks : WF_vars(LiveStep(t))

(***************************************************************************)
(* The executions without a steal and without a storage error: the Remove  *)
(* of line 325 is never issued and the lock write of line 383 fails only   *)
(* on an existing lock file.                                               *)
(***************************************************************************)

NoStealStep(t) ==
    \/ OrdinaryStep(t)
    \/ DownloadFnRaises(t)

NextNoSteal ==
    \/ \E t \in Tasks : NoStealStep(t)
    \/ TimePasses

SpecNoSteal == Init /\ [][NextNoSteal]_vars

(***************************************************************************)
(* The executions without a crash, a download_fn failure or a storage      *)
(* error, under fair scheduling.                                           *)
(***************************************************************************)

NextNoFailure ==
    \/ \E t \in Tasks : LiveStep(t)
    \/ TimePasses

\* Every call keeps running: its process is scheduled, its sleeps end and
\* download_fn returns.
SpecNoFailure ==
    /\ Init
    /\ [][NextNoFailure]_vars
    /\ \A t \in Tasks : WF_vars(LiveStep(t))

(***************************************************************************)
(* The lock record on its own: _lock_file_contents writes it (line 233),   *)
(* _task_uid_from_lock_file reads the task uid back (lines 258-259).       *)
(***************************************************************************)

\* Host names may contain dots; uuid.uuid4().hex (line 377) has none.
Hostnames == Strings({"h", "."}, MaxHostLen)
Pids == 1 .. MaxPid
TaskUids == Strings({"a", "0"}, MaxUidLen)

InitLockRecord ==
    /\ InitCalls
    /\ lock_record \in [hostname : Hostnames, pid : Pids, task_uid : TaskUids,
                        lock : {NoFile}, read_uid : {None}]
    /\ InitNoManager

WriteLockRecord ==
    /\ lock_record.lock = NoFile
    /\ lock_record' =
          [lock_record EXCEPT !.lock =
              LockFileContentsString(lock_record.hostname, lock_record.pid,
                                     lock_record.task_uid)]
    /\ UNCHANGED <<storage, pc, result, did, monitorLocals, errs, manager, clock,
                   download_progress_env, progress_calls, uncompress>>

ReadTaskUid ==
    /\ lock_record.lock # NoFile
    /\ lock_record.read_uid = None
    /\ lock_record' =
          [lock_record EXCEPT !.read_uid = TaskUidFromLockString(lock_record.lock)]
    /\ UNCHANGED <<storage, pc, result, did, monitorLocals, errs, manager, clock,
                   download_progress_env, progress_calls, uncompress>>

NextLockRecord ==
    \/ WriteLockRecord
    \/ ReadTaskUid

SpecLockRecord == InitLockRecord /\ [][NextLockRecord]_vars

(***************************************************************************)
(* DownloadManager, lines 124-200: _log_progress is the log_function the   *)
(* extraction calls with the bytes of each chunk.                          *)
(***************************************************************************)

\* Lines 127-136: __init__ takes the time of construction as the time of
\* the last message. The environment variable is set or not. The object's
\* download_and_uncompress has been called and is extracting (line 192).
InitManager ==
    /\ InitCalls
    /\ module_dir = NoDir
    /\ lock_record = NoRecord
    /\ clock = 0
    /\ manager = [last_progress_msg_print_time |-> clock,
                  total_bytes_downloaded |-> 0]
    /\ download_progress_env \in {"", "1"}
    /\ progress_calls = <<>>
    /\ uncompress_pc = "extracting"
    /\ summary_msgs = <<>>
    /\ raised = ""

\* Lines 177-179: _interactive_mode returns the variable's value, which is
\* true when it is not empty.
InteractiveMode == download_progress_env # ""

\* Line 167-168 with >= for >.
ShouldPrintAtInterval(now) ==
    \/ InteractiveMode
    \/ now - manager.last_progress_msg_print_time >= ProgressIntervalSec

\* Lines 167-168: the condition of the progress message.
ShouldPrint(now) ==
    \/ InteractiveMode
    \/ now - manager.last_progress_msg_print_time > ProgressIntervalSec

\* Lines 159-175: _log_progress(bytes_downloaded).
LogProgress(bytes_downloaded) ==
    /\ manager.total_bytes_downloaded + bytes_downloaded <= MaxBytes
    /\ LET now == clock IN
       IF ShouldPrint(now)
       THEN /\ manager' = [last_progress_msg_print_time |-> now,
                           total_bytes_downloaded |->
                               manager.total_bytes_downloaded + bytes_downloaded]
       ELSE manager' = [manager EXCEPT !.total_bytes_downloaded =
                                          @ + bytes_downloaded]
    /\ progress_calls' =
          Append(progress_calls, [at |-> clock, interactive |-> InteractiveMode,
                                  printed |-> ShouldPrint(clock),
                                  bytes_downloaded |-> bytes_downloaded])
    /\ UNCHANGED <<storage, pc, result, did, monitorLocals, errs, lock_record,
                   clock, download_progress_env, uncompress>>

\* Time passes between two chunks.
Tick(secs) ==
    /\ clock + secs <= MaxClock
    /\ clock' = clock + secs
    /\ UNCHANGED <<storage, pc, result, did, monitorLocals, errs, lock_record,
                   manager, download_progress_env, progress_calls, uncompress>>

\* The environment variable is set or cleared during the download.
SetProgressEnv ==
    /\ download_progress_env' = IF InteractiveMode THEN "" ELSE "1"
    /\ UNCHANGED <<storage, pc, result, did, monitorLocals, errs, lock_record,
                   manager, clock, progress_calls, uncompress>>

\* Lines 192-198: extract_tarfile_to_destination returns and the summary
\* is printed with _print_download_progress_msg, which tests no interval
\* (lines 138-157) and writes to the console or to the log.
ExtractReturns ==
    /\ uncompress_pc = "extracting"
    /\ uncompress_pc' = "returned"
    /\ summary_msgs' =
          Append(summary_msgs, [total_size |-> manager.total_bytes_downloaded,
                                interactive |-> InteractiveMode])
    /\ UNCHANGED <<storage, pc, result, did, monitorLocals, errs, lock_record,
                   manager, clock, download_progress_env, progress_calls, raised>>

\* Lines 192-200: extract_tarfile_to_destination raises tarfile.ReadError,
\* lines 194-198 are skipped and line 200 raises IOError in its place.
ExtractRaisesReadError ==
    /\ uncompress_pc = "extracting"
    /\ uncompress_pc' = "raised"
    /\ raised' = "IOError"
    /\ UNCHANGED <<storage, pc, result, did, monitorLocals, errs, lock_record,
                   manager, clock, download_progress_env, progress_calls,
                   summary_msgs>>

NextManager ==
    \/ \E bytes_downloaded \in 1 .. 2 :
          /\ uncompress_pc = "extracting"
          /\ LogProgress(bytes_downloaded)
    \/ \E secs \in {ProgressIntervalSec, ProgressIntervalSec + 1} : Tick(secs)
    \/ SetProgressEnv
    \/ ExtractReturns
    \/ ExtractRaisesReadError

SpecManager == InitManager /\ [][NextManager]_vars

(***************************************************************************)
(* An orphaned lock with several contenders: one more call writes the lock *)
(* (lines 362-384) and its process dies at once; the tasks contend.        *)
(***************************************************************************)

\* The steps of the call that dies: the fast path finds nothing to return,
\* the lock write succeeds, the process dies.
DoomedStep ==
    \/ CheckExistsBeforeLock(LateCaller)
    \/ CheckListBeforeLock(LateCaller)
    \/ WritableWithoutOverwrite(lock_file) /\ CreateLock(LateCaller)
    \/ pc[LateCaller] = "chk_exists" /\ Crash(LateCaller)

NextOrphan ==
    \/ \E t \in Tasks : TaskStep(t)
    \/ TimePasses
    \/ DoomedStep

SpecOrphan == Init /\ [][NextOrphan]_vars

(***************************************************************************)
(* Storage errors after the lock write: the operations of lines 387-391    *)
(* (Exists, ListDirectory, DeleteRecursively) run inside the same try      *)
(* block as the lock write, with the except clauses of lines 395-405.      *)
(***************************************************************************)

\* The operation task t issues at lines 387-391 fails with error e: an error
\* of the except-tuple aborts the call, any other one is passed over and
\* line 408 calls the monitor. The lock file of t stays in place.
StorageErrorAfterLock(t) ==
    /\ pc[t] \in {"chk_exists", "chk_list", "del_exists", "del_rec"}
    /\ errs < MaxErrors
    /\ errs' = errs + 1
    /\ \E e \in PermanentErrors \cup {"UnavailableError"} :
          /\ LockCreationFailed(t, e)
          /\ did' = [did EXCEPT ![t] =
                       IF e \in PermanentErrors THEN @ \cup {e} ELSE @]
    /\ UNCHANGED <<storage, aside>>

NextStorageErrors ==
    \/ Next
    \/ \E t \in Tasks : StorageErrorAfterLock(t)

SpecStorageErrors == Init /\ [][NextStorageErrors]_vars

(***************************************************************************)
(* Properties.                                                             *)
(***************************************************************************)

\* The call of t has returned or raised.
Terminated(t) == pc[t] = "done"

\* C1: whenever module_dir exists it is either the empty directory that was
\* there before any call, or exactly the temp dir of one task whose
\* download_fn returned without error and whose Rename succeeded: complete,
\* never partial, never from a failed or still-running download.
C1_ModuleDirIsOneCompleteDownload ==
    Exists(module_dir) =>
        \/ module_dir = EmptyDir
        \/ /\ module_dir.owner \in Tasks
           /\ module_dir.size = ArtifactSize
           /\ {"download_ok", "rename_ok"} \subseteq did[module_dir.owner]

\* C1 witness: module_dir is populated while another task's download failed.
C1_Witness ==
    /\ Populated(module_dir)
    /\ \E u \in Tasks : u # module_dir.owner /\ result[u] = "DownloadError"

\* C2 (as claimed): once module_dir exists and is non-empty, no step deletes
\* it or changes its content.
C2_PopulatedModuleDirNeverChanges ==
    [][Populated(module_dir) => module_dir' = module_dir]_vars

\* C3 (as claimed): whenever a call returns module_dir, module_dir exists
\* and is non-empty at the moment of the return.
C3_ReturnImpliesPopulated ==
    [][\A t \in Tasks :
          (~Terminated(t) /\ Terminated(t)' /\ result'[t] = "ok")
              => Populated(module_dir')]_vars

\* C4 (as claimed): at most one Rename(tmp_dir, module_dir) succeeds over
\* the whole execution.
C4_AtMostOneRenameSucceeds ==
    Cardinality({t \in Tasks : "rename_ok" \in did[t]}) <= 1

\* C5 (as claimed): a call made while module_dir exists and is non-empty
\* returns module_dir and has done nothing else: no lock, no temp dir, no
\* descriptor, no download_fn.
C5_CallOnPopulatedReturns ==
    \A t \in Callers :
        (Terminated(t) /\ "called_populated" \in did[t])
            => result[t] = "ok" /\ did[t] = {"called_populated"}

\* C6: when a call whose download_fn raised has terminated, its temp dir
\* does not exist, the lock file does not hold its lock content, the error
\* of download_fn is what the call raised, it has not written the
\* descriptor, and if no other task ever called, module_dir does not exist.
C6_DownloadErrorCleansUp ==
    \A t \in Tasks :
        (Terminated(t) /\ "download_fn" \in did[t] /\ "download_ok" \notin did[t])
            => /\ result[t] = "DownloadError"
               /\ ~Exists(tmp_dir[t])
               /\ lock_file # lock_file_contents(t)
               /\ "descriptor" \notin did[t]
               /\ descriptor # t
               /\ (\A u \in Tasks \ {t} : pc[u] = "idle") => ~Exists(module_dir)

\* C6 witness: a call whose download_fn raised has terminated and no other
\* task has called.
C6_Witness ==
    \E t \in Tasks :
        /\ Terminated(t)
        /\ result[t] = "DownloadError"
        /\ \A u \in Tasks \ {t} : pc[u] = "idle"

\* C7 (as claimed): the Remove of the finally clause never removes a lock
\* file whose content, at the moment of the removal, is another task's.
C7_CleanupRemovesOnlyOwnLock ==
    [][\A t \in Tasks :
          (pc[t] = "cleanup_remove" /\ pc'[t] = "done" /\ lock_file # NoFile)
              => lock_file = lock_file_contents(t)]_vars

\* C8: a temp dir changes (is created, written, renamed, deleted) only in a
\* step of the task whose uid it embeds, and when a call has terminated its
\* own temp dir does not exist.
C8_TmpDirOwnedByItsTask ==
    /\ [][\A t \in Tasks : tmp_dir'[t] # tmp_dir[t] => TaskStep(t)]_vars
    /\ [](\A t \in Tasks : Terminated(t) => ~Exists(tmp_dir[t]))

\* C8 witness: a task that had created its temp dir has terminated, and the
\* temp dir of another task exists.
C8_Witness ==
    \E t, u \in Tasks :
        /\ Terminated(t) /\ "tmp" \in did[t]
        /\ u # t /\ Exists(tmp_dir[u])

\* C9: a task whose Rename failed with AlreadyExistsError found module_dir
\* populated by another task, leaves module_dir as it is in every step it
\* takes from then on, returns module_dir (no error), and has no temp dir
\* left when it terminates.
C9_LostRenameIsSuccess ==
    /\ [](\A t \in Tasks :
            "rename_lost" \in did[t]
                => /\ result[t] = "ok"
                   /\ Terminated(t) => ~Exists(tmp_dir[t]))
    /\ [][\A t \in Tasks :
            /\ ("rename_lost" \notin did[t] /\ "rename_lost" \in did'[t])
                 => Populated(module_dir) /\ module_dir.owner # t
            /\ ("rename_lost" \in did'[t] /\ TaskStep(t))
                 => module_dir' = module_dir]_vars

\* C9 witness: a task that lost the Rename has returned module_dir, which
\* holds the winner's download.
C9_Witness ==
    \E t \in Tasks :
        /\ Terminated(t) /\ "rename_lost" \in did[t] /\ result[t] = "ok"
        /\ Populated(module_dir) /\ module_dir.owner # t

\* C10: a lock creation that fails with one of the seven permanent error
\* classes ends the call with that error: the task is in the finally clause
\* or done, never again in the monitor or at the lock creation, it never
\* held the lock, made no temp dir, did not call download_fn and removes no
\* lock file; a lock creation that fails otherwise changes nothing in the
\* storage, raises nothing and enters the monitor, which returns to the
\* lock creation only.
C10_PermanentErrorAbortsOthersRetry ==
    /\ [](\A t \in Tasks : \A e \in PermanentErrors :
            e \in did[t]
                => /\ result[t] = e
                   /\ pc[t] \in {"cleanup_tmp", "cleanup_read", "done"}
                   /\ did[t] = {e}
                   /\ ~Exists(tmp_dir[t]))
    /\ [][\A t \in Tasks :
            /\ (pc[t] = "write_lock" /\ pc'[t] # "write_lock")
                 => \/ did'[t] \cap PermanentErrors # {}
                    \/ /\ lock_file = NoFile
                       /\ lock_file' = lock_file_contents(t)
                       /\ pc'[t] = "chk_exists"
                    \/ /\ pc'[t] = "w_exists"
                       /\ result'[t] = "none"
                       /\ storage' = storage
            /\ (pc[t] \in MonitorPcs /\ pc'[t] \notin MonitorPcs)
                 => pc'[t] = "write_lock" /\ result'[t] = "none"
            /\ (did[t] \cap PermanentErrors # {} /\ TaskStep(t))
                 => /\ lock_file' = lock_file
                    /\ module_dir' = module_dir
                    /\ \A u \in Tasks \ {t} : tmp_dir'[u] = tmp_dir[u]]_vars

\* C10 witness: a call has terminated with the permanent error of its lock
\* creation while another task holds the lock.
C10_Witness ==
    \E t \in Tasks : \E e \in PermanentErrors :
        /\ Terminated(t) /\ e \in did[t] /\ result[t] = e
        /\ lock_file # NoFile

\* The lock file holds the record of the crashed task.
OrphanedLock == \E c \in Tasks : Crashed(c) /\ lock_file = lock_file_contents(c)

\* Some live task is inside _wait_for_lock_to_disappear.
ContenderWaiting == \E u \in Tasks : pc[u] \in MonitorPcs

\* C11: after a holder crashed with its lock in place, a waiting contender
\* eventually removes that lock, a live task eventually holds the lock, and
\* (download_fn succeeding) module_dir eventually exists and is non-empty.
C11_OrphanedLockIsReclaimed ==
    /\ (OrphanedLock /\ ContenderWaiting) ~> ~OrphanedLock
    /\ (OrphanedLock /\ ContenderWaiting) ~>
          (\E u \in Tasks : ~Crashed(u) /\ lock_file = lock_file_contents(u))
    /\ (OrphanedLock /\ ContenderWaiting) ~> Populated(module_dir)

\* A contender has removed the crashed task's lock and published its download.
C11_Witness ==
    \E c, u \in Tasks :
        /\ Crashed(c)
        /\ c # u
        /\ "rename_ok" \in did[u]
        /\ Exists(tmp_dir[c])
        /\ Populated(module_dir)

\* Task t is between its successful lock creation (line 384) and the end of
\* its cleanup (line 450).
Holding(t) == pc[t] \in HolderPcs /\ "lock" \in did[t]

\* download_fn of task t has been called and has not returned or raised.
InDownloadFn(t) == pc[t] = "download"

\* C12: without a steal and without an injected storage error, at most one
\* task at a time is between its successful lock creation and its cleanup, so
\* two download_fn executions never overlap.
C12_OneHolderWithoutSteal ==
    \A t, u \in Tasks :
        t # u => /\ ~(Holding(t) /\ Holding(u))
                 /\ ~(InDownloadFn(t) /\ InDownloadFn(u))

\* A second task holds the lock after the first holder's download_fn raised
\* and its cleanup ended, and is itself inside download_fn.
C12_Witness ==
    \E t, u \in Tasks :
        /\ t # u
        /\ Terminated(t)
        /\ "lock" \in did[t]
        /\ result[t] = "DownloadError"
        /\ Holding(u)
        /\ InDownloadFn(u)

\* The time test of line 312 has just been true for some waiting task: its
\* staleness timeout fired.
TimeoutFired == \E t \in Tasks : pc[t] = "w_uid"

\* download_fn has been called by task t.
Invoked(t) == InDownloadFn(t) \/ "download_fn" \in did[t]

\* Every call has returned module_dir, download_fn was called once, and the
\* lock file and all temp dirs are gone.
AllReturned ==
    /\ \A t \in Tasks : Terminated(t) /\ result[t] = "ok"
    /\ Cardinality({t \in Tasks : Invoked(t)}) = 1
    /\ Populated(module_dir)
    /\ lock_file = NoFile
    /\ \A t \in Tasks : ~Exists(tmp_dir[t])

\* C13: concurrent calls on an initially absent module_dir, without crash,
\* download_fn failure or storage error: unless some staleness timeout fires,
\* download_fn is never called by two tasks and, under fair scheduling, every
\* call eventually has returned module_dir with download_fn called exactly
\* once and the lock file and all temp dirs removed.
C13_AllCallsReturnAfterOneDownload ==
    (module_dir = NoDir) =>
        \/ <>TimeoutFired
        \/ /\ [](Cardinality({t \in Tasks : Invoked(t)}) <= 1)
           /\ <>[]AllReturned

\* All calls returned after one download, and a task that did not download
\* had to take the lock to find module_dir populated.
C13_Witness ==
    /\ AllReturned
    /\ \E t \in Tasks : "lock" \in did[t] /\ ~Invoked(t)

\* C14: the task uid read back from a lock record "host.pid.uid" is the uid
\* it was written with, for every host name (with dots or without), pid and
\* dot-free uid.
C14_LockRecordRoundTrip ==
    lock_record.read_uid # None => lock_record.read_uid = lock_record.task_uid

\* A record with a dotted host name and a pid of two digits was read back.
C14_Witness ==
    /\ lock_record.read_uid # None
    /\ \E i \in 1 .. Len(lock_record.hostname) : lock_record.hostname[i] = "."
    /\ lock_record.pid >= 10
    /\ Len(Split(lock_record.lock, ".")) > 3


\* The time of the last message printed before the i-th call, or of the
\* construction.
LastPrintedBefore(i) ==
    LET before == {j \in 1 .. i - 1 : progress_calls[j].printed} IN
    IF before = {} THEN 0
    ELSE progress_calls[CHOOSE j \in before : \A k \in before : k <= j].at

\* C15: a progress message printed with interactive mode off comes more
\* than 15 seconds after the previous printed message (or the construction),
\* and with interactive mode on every _log_progress call prints a message.
C15_ProgressCadence ==
    \A i \in 1 .. Len(progress_calls) :
        LET call == progress_calls[i] IN
        /\ (call.printed /\ ~call.interactive) =>
               call.at - LastPrintedBefore(i) > ProgressIntervalSec
        /\ call.interactive => call.printed

\* With interactive mode off, the first call, right after the construction,
\* printed nothing; the second, 16 seconds after it, printed a message; the
\* third, 15 seconds after that message, printed nothing.
C15_Witness ==
    /\ Len(progress_calls) = 3
    /\ \A i \in 1 .. 3 : ~progress_calls[i].interactive
    /\ \A i \in 1 .. 3 : progress_calls[i].printed <=> i = 2
    /\ progress_calls[1].at = 0
    /\ progress_calls[2].at = ProgressIntervalSec + 1
    /\ progress_calls[3].at - progress_calls[2].at = ProgressIntervalSec

\* The lock of the crashed task c, which never made its temp dir: as long
\* as this holds, the lock content and the holder's temp-dir size (0, the
\* directory does not exist) have not changed since c wrote the lock.
UnchangingLock(c) ==
    /\ Crashed(c)
    /\ lock_file = lock_file_contents(c)
    /\ "tmp" \notin did[c]

\* C16: a contender that waits on a lock whose content and whose holder's
\* temp-dir size never change removes the lock at every poll that finds
\* more than lock_file_timeout_sec elapsed, the first such poll included.
C16_RemovedAtFirstTimeout ==
    [][\A u, c \in Tasks :
          (/\ UnchangingLock(c)
           /\ pc[u] = "w_content"
           /\ pc'[u] # pc[u])
          => pc'[u] = "w_remove"]_vars

\* C17: the monitor goes to the Remove of line 325 only from the comparison
\* of lines 318-319, with a sample of its own recorded earlier, more than
\* lock_file_timeout_sec elapsed since it recorded that sample, and the
\* current temp-dir size and lock content equal to the recorded ones; and a
\* waiting task removes the lock only at that Remove.
C17_RemoveNeedsTwoEqualSamples ==
    /\ [](\A t \in Tasks :
            pc[t] = "w_remove" =>
                /\ lock_file_content[t] # None
                /\ elapsed[t] > LockFileTimeoutSec)
    /\ [][\A t \in Tasks :
            /\ (pc'[t] = "w_remove" /\ pc[t] # "w_remove") =>
                   /\ pc[t] = "w_content"
                   /\ elapsed[t] > LockFileTimeoutSec
                   /\ lock_file = lock_file_content[t]
                   /\ cur_locked_tmp_dir_size[t] = locked_tmp_dir_size[t]
            /\ (pc[t] \in MonitorPcs /\ pc'[t] # pc[t] /\ lock_file' # lock_file)
                   => pc[t] = "w_remove"]_vars

\* A waiting task has removed the lock of a holder that is in download_fn
\* and whose temp dir had the same non-zero size at both samples.
C17_Witness ==
    \E t, h \in Tasks :
        /\ pc[t] = "w_sleep_break"
        /\ locked_tmp_dir_size[t] > 0
        /\ lock_file_content[t] = lock_file_contents(h)
        /\ InDownloadFn(h)

\* Task t issues the Remove of line 325 and the lock file is there.
MonitorRemoves(t) ==
    /\ pc[t] = "w_remove"
    /\ pc'[t] # pc[t]
    /\ lock_file # NoFile

\* C18: when the monitor of a contender removes the lock file, the content
\* of the lock file at that moment is the content the contender last sampled
\* and judged stale (so it is not a lock written after a steal).
C18_RemovedLockIsTheSampledOne ==
    [][\A t \in Tasks : MonitorRemoves(t) => lock_file = lock_file_content[t]]_vars

\* C19: after a read of the lock file failed with NotFoundError during a
\* poll, the monitor has left its loop by its next existence check, whether
\* or not the lock file was re-created.
C19_NotFoundExitsLoop ==
    [][\A t \in Tasks :
          (pc[t] = "w_exists_notfound" /\ pc'[t] # pc[t])
          => pc'[t] = "write_lock"]_vars

\* C19, as the code has it: a read of the lock file that fails with
\* NotFoundError changes nothing; the monitor sleeps and evaluates
\* Exists(lock_file) again, returns if the lock file is absent then and
\* goes on polling if it has been re-created.
C19_NotFoundRechecksExistence ==
    [][\A t \in Tasks :
          /\ (pc'[t] = "w_sleep_notfound" /\ pc[t] # pc'[t]) =>
                 /\ pc[t] \in {"w_read", "w_uid", "w_content"}
                 /\ lock_file = NoFile
                 /\ lock_file' = NoFile
          /\ (pc[t] = "w_sleep_notfound" /\ pc'[t] # pc[t]) =>
                 pc'[t] = "w_exists_notfound"
          /\ (pc[t] = "w_exists_notfound" /\ pc'[t] # pc[t]) =>
                 pc'[t] = IF lock_file = NoFile THEN "write_lock" ELSE "w_read"
      ]_vars

\* A read of task t failed with NotFoundError, t slept, and another task has
\* written the lock file before t's existence check.
C19_Witness ==
    \E t, u \in Tasks :
        /\ t # u
        /\ pc[t] = "w_exists_notfound"
        /\ lock_file = lock_file_contents(u)

\* C20: a task leaves the monitor, to line 383, only from an existence
\* check of its own that finds the lock file absent or after the break that
\* follows a Remove of its own that removed the lock file; a Remove that
\* fails with NotFoundError leads through the sleep to the existence check;
\* and the monitor starts with the existence check, so that it returns
\* without a read or a sleep when the lock file is absent on entry.
C20_MonitorReturnsOnAbsentOrRemoved ==
    [][\A t \in Tasks :
          /\ (pc[t] \in MonitorPcs /\ pc'[t] \notin MonitorPcs) =>
                 /\ pc'[t] = "write_lock"
                 /\ \/ pc[t] \in {"w_exists", "w_exists_notfound"} /\ lock_file = NoFile
                    \/ pc[t] = "w_sleep_break"
          /\ (pc'[t] = "w_sleep_break" /\ pc[t] # pc'[t]) =>
                 /\ pc[t] = "w_remove"
                 /\ lock_file # NoFile
                 /\ lock_file' = NoFile
          /\ (pc[t] = "w_remove" /\ lock_file = NoFile /\ pc'[t] # pc[t]) =>
                 pc'[t] = "w_sleep"
          /\ (pc[t] = "w_sleep" /\ pc'[t] # pc[t]) => pc'[t] = "w_exists"
          /\ (pc[t] \notin MonitorPcs /\ pc'[t] \in MonitorPcs) =>
                 pc'[t] = "w_exists"
          /\ (pc[t] = "w_exists" /\ lock_file = NoFile /\ pc'[t] # pc[t]) =>
                 pc'[t] = "write_lock"
      ]_vars

\* Task t has judged the lock of h stale and is about to issue its Remove,
\* and h's own cleanup has removed the lock file: the Remove fails with
\* NotFoundError.
C20_Witness ==
    \E t, h \in Tasks :
        /\ pc[t] = "w_remove"
        /\ lock_file = NoFile
        /\ lock_file_content[t] = lock_file_contents(h)
        /\ Terminated(h)

\* Task t returned module_dir at line 389: it wrote its lock, its call ended
\* with module_dir and it never reached the Rename.
ReturnedAfterLock(t) ==
    /\ "lock" \in did[t]
    /\ result[t] = "ok"
    /\ "rename_ok" \notin did[t]
    /\ "rename_lost" \notin did[t]

\* C21: a task whose ListDirectory of line 387, made after its lock write,
\* finds module_dir non-empty returns module_dir, has made no temp dir and
\* called no download_fn, and its own lock is gone when its call has ended;
\* a task that finds module_dir empty goes on to lines 390-391 and makes
\* its temp dir only after its Exists(module_dir) was false or its
\* DeleteRecursively(module_dir) removed the directory.
C21_AfterLockReturnOrDelete ==
    /\ [](\A t \in Tasks :
            /\ ReturnedAfterLock(t) =>
                   /\ "tmp" \notin did[t]
                   /\ "download_fn" \notin did[t]
                   /\ ~Exists(tmp_dir[t])
            /\ Terminated(t) => lock_file # lock_file_contents(t))
    /\ [][\A t \in Tasks :
            /\ (pc[t] = "chk_list" /\ pc'[t] # pc[t] /\ Populated(module_dir)) =>
                   /\ result'[t] = "ok"
                   /\ pc'[t] = "cleanup_tmp"
                   /\ module_dir' = module_dir
            /\ (pc[t] = "chk_list" /\ pc'[t] # pc[t] /\ module_dir = EmptyDir) =>
                   pc'[t] = "del_exists"
            /\ (pc[t] = "del_exists" /\ pc'[t] # pc[t] /\ Exists(module_dir)) =>
                   pc'[t] = "del_rec"
            /\ (pc'[t] = "mkdirs" /\ pc[t] # pc'[t]) =>
                   \/ pc[t] = "del_exists" /\ ~Exists(module_dir)
                   \/ pc[t] = "del_rec" /\ Exists(module_dir) /\ module_dir' = NoDir
            /\ (tmp_dir'[t] # tmp_dir[t] /\ Exists(tmp_dir'[t]) /\ ~Exists(tmp_dir[t])) =>
                   pc[t] = "mkdirs"
      ]_vars

\* Task t found module_dir populated after its lock write and its call has
\* ended; the directory holds the download that task u published.
C21_Witness ==
    \E t, u \in Tasks :
        /\ ReturnedAfterLock(t)
        /\ Terminated(t)
        /\ "rename_ok" \in did[u]
        /\ module_dir.owner = u

\* C22: within one call the lock write succeeds before the temp dir is
\* made, the temp dir is made before download_fn runs, the descriptor is
\* written only after download_fn returned without error, and the Rename,
\* won or lost, comes after the descriptor write; each of these steps is
\* recorded when the one before it has been.
C22_StepOrder ==
    /\ [](\A t \in Tasks :
            /\ "tmp" \in did[t] => "lock" \in did[t]
            /\ (InDownloadFn(t) \/ "download_fn" \in did[t]) => "tmp" \in did[t]
            /\ "download_ok" \in did[t] => "download_fn" \in did[t]
            /\ "descriptor" \in did[t] => "download_ok" \in did[t]
            /\ ("rename_ok" \in did[t] \/ "rename_lost" \in did[t]) =>
                   "descriptor" \in did[t]
            /\ descriptor = t => "descriptor" \in did[t]
            /\ Exists(tmp_dir[t]) => "lock" \in did[t])
    /\ [][\A t \in Tasks :
            /\ ("tmp" \in did'[t] /\ "tmp" \notin did[t]) => "lock" \in did[t]
            /\ ("download_fn" \in did'[t] /\ "download_fn" \notin did[t]) =>
                   "tmp" \in did[t]
            /\ ("descriptor" \in did'[t] /\ "descriptor" \notin did[t]) =>
                   "download_ok" \in did[t] /\ result[t] = "none"
            /\ (\E r \in {"rename_ok", "rename_lost"} :
                    r \in did'[t] /\ r \notin did[t]) =>
                   "descriptor" \in did[t]
      ]_vars

\* Task t went through all the steps and lost the Rename to the download of
\* another task.
C22_Witness ==
    \E t \in Tasks :
        /\ {"lock", "tmp", "download_fn", "download_ok", "descriptor",
            "rename_lost"} \subseteq did[t]
        /\ Populated(module_dir)
        /\ module_dir.owner # t

\* C23: a task inside _wait_for_lock_to_disappear never finds its own record
\* in the lock file.
C23_NeverWaitsOnOwnLock ==
    \A t \in Tasks : pc[t] \in MonitorPcs => lock_file # lock_file_contents(t)

\* The lock of the crashed task c, whose temp dir does not exist (it was
\* never made, or c removed it at line 438 before it died).
OrphanedLockWithoutTmpDir(c) ==
    /\ Crashed(c)
    /\ lock_file = lock_file_contents(c)
    /\ ~Exists(tmp_dir[c])

\* C24: a listing of the holder's temp dir that fails with NotFoundError
\* gives size 0 and the poll goes on to the content read; and the lock of a
\* dead holder without temp dir, its content unchanged, is eventually
\* removed by a waiting contender.
C24_MissingTmpDirIsSizeZero ==
    /\ [][\A t \in Tasks :
            (pc[t] = "w_dirsize" /\ pc'[t] # pc[t] /\ ~Exists(tmp_dir[cur_uid[t]]))
            => /\ cur_locked_tmp_dir_size'[t] = 0
               /\ pc'[t] = "w_content"]_vars
    /\ \A c \in Tasks :
          (OrphanedLockWithoutTmpDir(c) /\ ContenderWaiting)
              ~> (lock_file # lock_file_contents(c))

\* A contender has removed the lock of a dead holder that never made its
\* temp dir, after two samples of size 0.
C24_Witness ==
    \E t, c \in Tasks :
        /\ OrphanedLock = FALSE
        /\ Crashed(c)
        /\ "tmp" \notin did[c]
        /\ pc[t] = "w_sleep_break"
        /\ lock_file_content[t] = lock_file_contents(c)
        /\ locked_tmp_dir_size[t] = 0

RECURSIVE SumOfBytes(_)
\* The sum of the byte counts of the _log_progress calls in calls.
SumOfBytes(calls) ==
    IF calls = <<>> THEN 0
    ELSE calls[1].bytes_downloaded + SumOfBytes(Tail(calls))

\* Exactly one summary when the extraction has returned, none otherwise.
OneSummaryOnCompletion ==
    Len(summary_msgs) = (IF uncompress_pc = "returned" THEN 1 ELSE 0)

\* The summary reports the sum of the bytes of all _log_progress calls,
\* printed or not.
SummaryReportsAllBytes ==
    uncompress_pc' = "returned" /\ uncompress_pc = "extracting"
        => summary_msgs'[1].total_size = SumOfBytes(progress_calls)

\* The error raised for an invalid archive is not the generic IOError.
InvalidArtifactErrorKind ==
    uncompress_pc = "raised" => raised # "IOError"

\* C25: when the extraction returns there is exactly one summary message,
\* whatever the mode and the time since the last message, and it reports
\* the sum of all byte counts passed to _log_progress; when the extraction
\* raises tarfile.ReadError there is no summary and the exception raised is
\* of a kind of its own, not the generic I/O error.
C25_SummaryOnceAndInvalidArtifactKind ==
    /\ []OneSummaryOnCompletion
    /\ [][SummaryReportsAllBytes]_vars
    /\ []InvalidArtifactErrorKind


====
